---- MODULE Spec2Model ----
(***************************************************************************)
(* Model of drivers/soc/qcom/smem_dramc.c: the size-based inference of the *)
(* DDR info structure revision, the three decode routines, the parse entry *)
(* point that publishes the decoded result in __dram, and the query        *)
(* qcom_smem_dram_get_hbb.                                                 *)
(*                                                                         *)
(* Numbers wider than 31 bits are kept as big-endian sequences of 16-bit   *)
(* limbs: a u32 is <<hi, lo>>, an unsigned long (64 bit) is                *)
(* <<l3, l2, l1, l0>>.  Structure sizes follow the LP64 ABI of arm64, the  *)
(* architecture of the SoCs this driver serves; enum ddr_info_version has  *)
(* no negative enumerator, so gcc and clang give it the type unsigned int. *)
(***************************************************************************)
EXTENDS Integers, Sequences, FiniteSets, TLC

VARIABLES
    __dram,       \* static struct smem_dram *__dram
    pc,           \* position of smem_dram_parse: "idle" between calls
    data,         \* the SMEM item returned by qcom_smem_get (NULL or a blob)
    actual_size,  \* its size in bytes
    inferred,     \* value returned by smem_dram_infer_struct_version
    ver,          \* local enum ddr_info_version ver (a u32)
    dram,         \* local struct smem_dram *dram
    i,            \* loop index of the running decode routine
    num_freq_entries, \* loop bound of the running decode routine
    ret,          \* value returned by smem_dram_parse (NoCall while it runs)
    hbb_ret,      \* value returned by the last qcom_smem_dram_get_hbb call
    logged,       \* the current/last parse call emitted pr_err
    allocated,    \* the current/last parse call reached devm_kzalloc
    prev_dram,    \* history: __dram on entry to the current/last parse call
    ever_ok,      \* history: some parse call returned the debugfs dentry
    last_ok_hbb   \* history: dram->hbb of the last such call

vars == <<__dram, pc, data, actual_size, inferred, ver, dram, i,
          num_freq_entries, ret, hbb_ret, logged, allocated, prev_dram,
          ever_ok, last_ok_hbb>>

-----------------------------------------------------------------------------
(* Program constants *)

MAX_DDR_FREQ_NUM_V3 == 13
MAX_DDR_FREQ_NUM_V5 == 14
MAX_CHAN_NUM == 8
MAX_RANK_NUM == 2

ENODATA == 61
EINVAL == 22
ENOMEM == 12

INFO_UNKNOWN == 0
INFO_V3 == 1
INFO_V3_WITH_14_FREQS == 2
INFO_V4 == 3
INFO_V5 == 4
INFO_V5_WITH_6_REGIONS == 5

NULL == [null |-> TRUE]

-----------------------------------------------------------------------------
(* Fixed-width arithmetic on 16-bit limbs *)

Limb == 65536

\* A non-negative int below 2^31 as a u32.
U32(n) == <<n \div Limb, n % Limb>>

\* Conversion of a (signed) int to unsigned int: two's complement.
IntToU32(n) ==
    IF n >= 0 THEN U32(n)
    ELSE LET m == (-n) - 1
         IN  <<(Limb - 1) - (m \div Limb), (Limb - 1) - (m % Limb)>>

U32Less(a, b) == a[1] < b[1] \/ (a[1] = b[1] /\ a[2] < b[2])

U32NonZero(a) == a # <<0, 0>>

\* k * x in unsigned int arithmetic (k a small int constant): wraps mod 2^32.
U32MulInt(k, x) ==
    LET p0 == k * x[2]
        p1 == k * x[1] + (p0 \div Limb)
    IN  <<p1 % Limb, p0 % Limb>>

\* Assignment of an unsigned int to an unsigned long: zero extension.
U32ToULong(x) == <<0, 0, x[1], x[2]>>

\* Assignment of a u32 to a u8: the low eight bits.
U32ToU8(x) == x[2] % 256

-----------------------------------------------------------------------------
(* Structure layout: sizeof and alignment as the C ABI computes them *)

AlignUp(off, a) == ((off + a - 1) \div a) * a

Max(a, b) == IF a >= b THEN a ELSE b

T_u8 == [size |-> 1, align |-> 1]
T_le16 == [size |-> 2, align |-> 2]
T_u32 == [size |-> 4, align |-> 4]
T_u64 == [size |-> 8, align |-> 8]
T_phys_addr_t == [size |-> 8, align |-> 8]

ArrayOf(t, n) == [size |-> t.size * n, align |-> t.align]

RECURSIVE FieldsEnd(_, _)
\* Offset just past member k of the member list.
FieldsEnd(fields, k) ==
    IF k = 0 THEN 0
    ELSE AlignUp(FieldsEnd(fields, k - 1), fields[k].align) + fields[k].size

RECURSIVE FieldsAlign(_, _)
FieldsAlign(fields, k) ==
    IF k = 0 THEN 1 ELSE Max(FieldsAlign(fields, k - 1), fields[k].align)

StructOf(fields) ==
    LET al == FieldsAlign(fields, Len(fields))
    IN  [size |-> AlignUp(FieldsEnd(fields, Len(fields)), al), align |-> al]

ddr_part_details == StructOf(<<T_le16, T_le16, T_le16, T_le16>>)

ddr_freq_table == StructOf(<<T_u32, T_u8>>)

ddr_freq_plan_v3 ==
    StructOf(<<ArrayOf(ddr_freq_table, MAX_DDR_FREQ_NUM_V3), T_u8, T_phys_addr_t>>)

ddr_details_v3 ==
    StructOf(<<T_u8, T_u8, ArrayOf(ddr_part_details, MAX_CHAN_NUM),
               ddr_freq_plan_v3, T_u8>>)

ddr_details_v4 ==
    StructOf(<<T_u8, T_u8, ArrayOf(ddr_part_details, MAX_CHAN_NUM),
               ddr_freq_plan_v3, T_u8, ArrayOf(T_u8, MAX_CHAN_NUM),
               ArrayOf(T_u8, MAX_CHAN_NUM * MAX_RANK_NUM)>>)

ddr_freq_plan_v5 ==
    StructOf(<<ArrayOf(ddr_freq_table, MAX_DDR_FREQ_NUM_V5), T_u8,
               T_phys_addr_t, T_u32>>)

ddr_region_v5 == StructOf(<<T_u64, T_u64, T_u64, T_u32, T_u8, T_u8, T_u64>>)

\* The flexible array member ddr_region[] adds its alignment, no size.
ddr_regions_v5 ==
    StructOf(<<T_u32, T_u64, T_u64, T_u64, T_u64, T_u32, ArrayOf(ddr_region_v5, 0)>>)

ddr_details_v5 ==
    StructOf(<<T_u8, T_u8, ArrayOf(ddr_part_details, MAX_CHAN_NUM),
               ddr_freq_plan_v5, T_u8, ddr_regions_v5>>)

-----------------------------------------------------------------------------
(* Inputs: the SMEM item handed out by qcom_smem_get *)

MaxSize == 550

FreqEntry(khz, en) == [freq_khz |-> U32(khz), enabled |-> en]

\* A table whose slots all hold entry b, except slot k, which holds e.
TableOf(b, k, e) ==
    [s \in 0..(MAX_DDR_FREQ_NUM_V5 - 1) |-> IF s = k THEN e ELSE b]

\* Entries placed at one probed slot of an otherwise unused table: zero but
\* enabled, disabled, valid, a value whose product with 1000 needs more than
\* 32 bits, and 2^29.
ProbeEntries ==
    {FreqEntry(0, 1), FreqEntry(1600000, 0), FreqEntry(1600000, 1),
     FreqEntry(4294968, 1), FreqEntry(536870912, 1)}

\* Entries placed at one probed slot of a table whose other slots are all
\* enabled at 1600000 kHz.
FullProbeEntries == {FreqEntry(1600000, 1), FreqEntry(4294968, 1)}

\* First slot, and the slot past the 13 declared by ddr_freq_plan_v3.
ProbeSlots == {0, MAX_DDR_FREQ_NUM_V3}

\* The 14 entry-sized cells starting at ddr_freq_tbl.ddr_freq.
FreqTables ==
    {TableOf(FreqEntry(0, 0), k, e) : k \in ProbeSlots, e \in ProbeEntries}
    \cup
    {TableOf(FreqEntry(1600000, 1), k, e) : k \in ProbeSlots, e \in FullProbeEntries}

Hbb4Of(h00, h10) ==
    [c \in 0..(MAX_CHAN_NUM - 1) |->
        [r \in 0..(MAX_RANK_NUM - 1) |->
            IF r # 0 THEN 0 ELSE IF c = 0 THEN h00 ELSE IF c = 1 THEN h10 ELSE 0]]

Hbb4Inputs == {Hbb4Of(3, 7), Hbb4Of(255, 0)}

Hbb5Inputs == {U32(15), U32(259)}

BlobOf(t, h4, h5) == [tbl |-> t, highest_bank_addr_bit |-> h4, ddr_regions_hbb |-> h5]

ZeroBlob == BlobOf([s \in 0..(MAX_DDR_FREQ_NUM_V5 - 1) |-> FreqEntry(0, 0)],
                   Hbb4Of(0, 0), U32(0))

\* Contents an item of the given size can carry in the fields the code reads;
\* fields lying beyond the item do not exist and are held at zero.
Blobs(size) ==
    IF size \in {ddr_details_v3.size, ddr_details_v3.size + ddr_freq_table.size}
    THEN {BlobOf(t, Hbb4Of(0, 0), U32(0)) : t \in FreqTables}
    ELSE IF size = ddr_details_v4.size
    THEN {BlobOf(t, h, U32(0)) : t \in FreqTables, h \in Hbb4Inputs}
    ELSE IF size \in {ddr_details_v5.size + 4 * ddr_region_v5.size,
                      ddr_details_v5.size + 6 * ddr_region_v5.size}
    THEN {BlobOf(t, Hbb4Of(0, 0), h) : t \in FreqTables, h \in Hbb5Inputs}
    ELSE {ZeroBlob}

\* Item sizes handed to smem_dram_parse: one below the smallest layout, the
\* five recognized sizes, and a V5 item with five region records.
ParseSizes ==
    {ddr_details_v3.size - 1,
     ddr_details_v3.size,
     ddr_details_v3.size + ddr_freq_table.size,
     ddr_details_v4.size,
     ddr_details_v5.size + 4 * ddr_region_v5.size,
     ddr_details_v5.size + 5 * ddr_region_v5.size,
     ddr_details_v5.size + 6 * ddr_region_v5.size}

-----------------------------------------------------------------------------
(* The program *)

ERR_PTR(e) == [err |-> e]

DebugfsDir == [dentry |-> "qcom_smem"]

NoCall == [none |-> TRUE]

\* devm_kzalloc: a zero-filled struct smem_dram.
ZeroDram ==
    [frequencies |-> [k \in 0..(MAX_DDR_FREQ_NUM_V5 - 1) |-> <<0, 0, 0, 0>>],
     num_frequencies |-> 0,
     hbb |-> 0]

\* Variant: any item at least as large as a four-region V5 item is taken to
\* be V5 (range matching instead of exact matching).
infer_struct_version_ranged(size) ==
    IF size < ddr_details_v3.size THEN -EINVAL
    ELSE IF size = ddr_details_v3.size THEN INFO_V3
    ELSE IF size = ddr_details_v3.size + ddr_freq_table.size
         THEN INFO_V3_WITH_14_FREQS
    ELSE IF size = ddr_details_v4.size THEN INFO_V4
    ELSE IF size = ddr_details_v5.size + 6 * ddr_region_v5.size
         THEN INFO_V5_WITH_6_REGIONS
    ELSE IF size >= ddr_details_v5.size + 4 * ddr_region_v5.size THEN INFO_V5
    ELSE INFO_UNKNOWN

smem_dram_infer_struct_version(size) ==
    IF size < ddr_details_v3.size THEN -EINVAL
    ELSE IF size = ddr_details_v3.size THEN INFO_V3
    ELSE IF size = ddr_details_v3.size + ddr_freq_table.size
         THEN INFO_V3_WITH_14_FREQS
    ELSE IF size = ddr_details_v4.size THEN INFO_V4
    ELSE IF size = ddr_details_v5.size + 4 * ddr_region_v5.size THEN INFO_V5
    ELSE IF size = ddr_details_v5.size + 6 * ddr_region_v5.size
         THEN INFO_V5_WITH_6_REGIONS
    ELSE INFO_UNKNOWN

\* return from smem_dram_parse with value r
Return(r) ==
    /\ ret' = r
    /\ pc' = "idle"
    /\ ever_ok' = (ever_ok \/ r = DebugfsDir)
    /\ last_ok_hbb' = IF r = DebugfsDir THEN dram'.hbb ELSE last_ok_hbb

\* qcom_smem_get found no item: IS_ERR_OR_NULL(data)
smem_dram_parse_nodata ==
    /\ pc = "idle"
    /\ data' = NULL
    /\ actual_size' = 0
    /\ inferred' = 0
    /\ ver' = U32(0)
    /\ dram' = NULL
    /\ i' = 0
    /\ num_freq_entries' = 0
    /\ logged' = FALSE
    /\ allocated' = FALSE
    /\ prev_dram' = __dram
    /\ hbb_ret' = NoCall
    /\ Return(ERR_PTR(-ENODATA))
    /\ UNCHANGED __dram

\* qcom_smem_get, smem_dram_infer_struct_version and the checks of ver
smem_dram_parse_entry ==
    /\ pc = "idle"
    /\ \E size \in ParseSizes : \E blob \in Blobs(size) :
          LET r == smem_dram_infer_struct_version(size)
              v == IntToU32(r)
          IN  /\ data' = blob
              /\ actual_size' = size
              /\ inferred' = r
              /\ ver' = v
              /\ dram' = NULL
              /\ i' = 0
              /\ num_freq_entries' = 0
              /\ allocated' = FALSE
              /\ prev_dram' = __dram
              /\ hbb_ret' = NoCall
              /\ IF U32Less(v, IntToU32(0))
                 THEN /\ logged' = FALSE
                      /\ Return(ERR_PTR(-ENODATA))
                 ELSE IF v = IntToU32(INFO_UNKNOWN)
                 THEN /\ logged' = TRUE
                      /\ Return(ERR_PTR(-EINVAL))
                 ELSE /\ logged' = FALSE
                      /\ pc' = "alloc"
                      /\ ret' = NoCall
                      /\ UNCHANGED <<ever_ok, last_ok_hbb>>
    /\ UNCHANGED __dram

\* Variant: the global is assigned as soon as the allocation succeeded.
parse_alloc_publishes_early ==
    /\ pc = "alloc"
    /\ allocated' = TRUE
    /\ \E ok \in BOOLEAN :
          IF ok
          THEN /\ dram' = ZeroDram
               /\ __dram' = ZeroDram
               /\ pc' = "switch"
               /\ UNCHANGED <<ret, ever_ok, last_ok_hbb>>
          ELSE /\ dram' = NULL
               /\ UNCHANGED __dram
               /\ Return(ERR_PTR(-ENOMEM))
    /\ UNCHANGED <<data, actual_size, inferred, ver, i,
                   num_freq_entries, hbb_ret, logged, prev_dram>>

\* dram = devm_kzalloc(...); if (!dram) return ERR_PTR(-ENOMEM);
smem_dram_parse_alloc ==
    /\ pc = "alloc"
    /\ allocated' = TRUE
    /\ \E ok \in BOOLEAN :
          IF ok
          THEN /\ dram' = ZeroDram
               /\ pc' = "switch"
               /\ UNCHANGED <<ret, ever_ok, last_ok_hbb>>
          ELSE /\ dram' = NULL
               /\ Return(ERR_PTR(-ENOMEM))
    /\ UNCHANGED <<__dram, data, actual_size, inferred, ver, i,
                   num_freq_entries, hbb_ret, logged, prev_dram>>

\* Variant: the extra slot is walked whether or not the item carries it.
parse_v3_data_always_extra(additional_freq_entry) ==
    /\ num_freq_entries' = MAX_DDR_FREQ_NUM_V3 + 1
    /\ i' = 0
    /\ pc' = "v3_loop"
    /\ UNCHANGED dram

\* Entry of smem_dram_parse_v3_data up to the loop.
smem_dram_parse_v3_data(additional_freq_entry) ==
    /\ num_freq_entries' =
          IF additional_freq_entry THEN MAX_DDR_FREQ_NUM_V3 + 1
          ELSE MAX_DDR_FREQ_NUM_V3
    /\ i' = 0
    /\ pc' = "v3_loop"
    /\ UNCHANGED dram

\* Entry of smem_dram_parse_v4_data up to the loop.
smem_dram_parse_v4_data ==
    /\ dram' = [dram EXCEPT !.hbb = data.highest_bank_addr_bit[0][0]]
    /\ i' = 0
    /\ pc' = "v4_loop"
    /\ UNCHANGED num_freq_entries

\* Entry of smem_dram_parse_v5_data up to the loop.
smem_dram_parse_v5_data ==
    /\ dram' = [dram EXCEPT !.hbb = U32ToU8(data.ddr_regions_hbb)]
    /\ i' = 0
    /\ pc' = "v5_loop"
    /\ UNCHANGED num_freq_entries

\* switch (ver)
smem_dram_parse_switch ==
    /\ pc = "switch"
    /\ IF ver = IntToU32(INFO_V3)
       THEN smem_dram_parse_v3_data(FALSE)
            /\ UNCHANGED <<ret, ever_ok, last_ok_hbb>>
       ELSE IF ver = IntToU32(INFO_V3_WITH_14_FREQS)
       THEN smem_dram_parse_v3_data(TRUE)
            /\ UNCHANGED <<ret, ever_ok, last_ok_hbb>>
       ELSE IF ver = IntToU32(INFO_V4)
       THEN smem_dram_parse_v4_data
            /\ UNCHANGED <<ret, ever_ok, last_ok_hbb>>
       ELSE IF ver \in {IntToU32(INFO_V5), IntToU32(INFO_V5_WITH_6_REGIONS)}
       THEN smem_dram_parse_v5_data
            /\ UNCHANGED <<ret, ever_ok, last_ok_hbb>>
       ELSE /\ UNCHANGED <<dram, i, num_freq_entries>>
            /\ Return(ERR_PTR(-EINVAL))
    /\ UNCHANGED <<__dram, data, actual_size, inferred, ver, hbb_ret, logged,
                   allocated, prev_dram>>

\* if (freq_entry->freq_khz && freq_entry->enabled)
freq_entry_valid(freq_entry) ==
    U32NonZero(freq_entry.freq_khz) /\ freq_entry.enabled # 0

\* Variant: a value already in the list is not stored again.
store_frequency_once(d, freq_entry) ==
    LET hz == U32ToULong(U32MulInt(1000, freq_entry.freq_khz))
    IN  IF \E k \in 0..(d.num_frequencies - 1) : d.frequencies[k] = hz
        THEN d
        ELSE [d EXCEPT !.frequencies[d.num_frequencies] = hz,
                       !.num_frequencies = @ + 1]

\* dram->frequencies[dram->num_frequencies++] = 1000 * freq_entry->freq_khz;
store_frequency(d, freq_entry) ==
    [d EXCEPT !.frequencies[d.num_frequencies] =
                  U32ToULong(U32MulInt(1000, freq_entry.freq_khz)),
              !.num_frequencies = @ + 1]

\* One iteration of for (int i = 0; i < bound; i++) { ... }
freq_loop_iteration(bound) ==
    /\ i < bound
    /\ dram' = IF freq_entry_valid(data.tbl[i])
               THEN store_frequency(dram, data.tbl[i])
               ELSE dram
    /\ i' = i + 1
    /\ pc' = IF i + 1 < bound THEN pc ELSE "publish"
    /\ UNCHANGED <<__dram, data, actual_size, inferred, ver, num_freq_entries,
                   ret, hbb_ret, logged, allocated, prev_dram, ever_ok,
                   last_ok_hbb>>

smem_dram_parse_v3_loop ==
    /\ pc = "v3_loop"
    /\ freq_loop_iteration(num_freq_entries)

\* Variant: the V4 routine walks the 14 slots of the V5 table.
parse_v4_loop_14 ==
    /\ pc = "v4_loop"
    /\ freq_loop_iteration(MAX_DDR_FREQ_NUM_V5)

smem_dram_parse_v4_loop ==
    /\ pc = "v4_loop"
    /\ freq_loop_iteration(MAX_DDR_FREQ_NUM_V3)

smem_dram_parse_v5_loop ==
    /\ pc = "v5_loop"
    /\ freq_loop_iteration(MAX_DDR_FREQ_NUM_V5)

\* debugfs_create_dir/file; __dram = dram; return debugfs_dir;
smem_dram_parse_publish ==
    /\ pc = "publish"
    /\ UNCHANGED <<data, actual_size, inferred, ver, dram, i,
                   num_freq_entries, hbb_ret, logged, allocated, prev_dram>>
    /\ __dram' = dram
    /\ Return(DebugfsDir)

\* Variant: a stored value of 0 is reported as missing.
get_hbb_value_zero_missing(p) == IF p # NULL /\ p.hbb # 0 THEN p.hbb ELSE -ENODATA

\* return __dram ? __dram->hbb : -ENODATA;
get_hbb_value(p) == IF p # NULL THEN p.hbb ELSE -ENODATA

qcom_smem_dram_get_hbb ==
    /\ pc = "idle"
    /\ hbb_ret' = [val |-> get_hbb_value(__dram)]
    /\ UNCHANGED <<__dram, pc, data, actual_size, inferred, ver, dram, i,
                   num_freq_entries, ret, logged, allocated, prev_dram,
                   ever_ok, last_ok_hbb>>

Init ==
    /\ __dram = NULL
    /\ pc = "idle"
    /\ data = NULL
    /\ actual_size = 0
    /\ inferred = 0
    /\ ver = U32(0)
    /\ dram = NULL
    /\ i = 0
    /\ num_freq_entries = 0
    /\ ret = NoCall
    /\ hbb_ret = NoCall
    /\ logged = FALSE
    /\ allocated = FALSE
    /\ prev_dram = NULL
    /\ ever_ok = FALSE
    /\ last_ok_hbb = 0

Next ==
    \/ smem_dram_parse_nodata
    \/ smem_dram_parse_entry
    \/ smem_dram_parse_alloc
    \/ smem_dram_parse_switch
    \/ smem_dram_parse_v3_loop
    \/ smem_dram_parse_v4_loop
    \/ smem_dram_parse_v5_loop
    \/ smem_dram_parse_publish
    \/ qcom_smem_dram_get_hbb

Spec == Init /\ [][Next]_vars

-----------------------------------------------------------------------------
(* smem_dram_infer_struct_version on its own, over every size up to MaxSize *)

InitInfer ==
    /\ __dram = NULL
    /\ pc = "infer"
    /\ data = NULL
    /\ actual_size \in 0..MaxSize
    /\ inferred = 0
    /\ ver = U32(0)
    /\ dram = NULL
    /\ i = 0
    /\ num_freq_entries = 0
    /\ ret = NoCall
    /\ hbb_ret = NoCall
    /\ logged = FALSE
    /\ allocated = FALSE
    /\ prev_dram = NULL
    /\ ever_ok = FALSE
    /\ last_ok_hbb = 0

\* ver = smem_dram_infer_struct_version(actual_size);
infer_call ==
    /\ pc = "infer"
    /\ inferred' = smem_dram_infer_struct_version(actual_size)
    /\ ver' = IntToU32(inferred')
    /\ pc' = "inferred"
    /\ UNCHANGED <<__dram, data, actual_size, dram, i, num_freq_entries, ret,
                   hbb_ret, logged, allocated, prev_dram, ever_ok, last_ok_hbb>>

NextInfer == infer_call

SpecInfer == InitInfer /\ [][NextInfer]_vars

-----------------------------------------------------------------------------
(* Reference notions the properties are stated with *)

\* Byte sizes of the five recognized layouts, by identifier.
RecognizedSize(id) ==
    CASE id = INFO_V3 -> ddr_details_v3.size
      [] id = INFO_V3_WITH_14_FREQS -> ddr_details_v3.size + ddr_freq_table.size
      [] id = INFO_V4 -> ddr_details_v4.size
      [] id = INFO_V5 -> ddr_details_v5.size + 4 * ddr_region_v5.size
      [] id = INFO_V5_WITH_6_REGIONS -> ddr_details_v5.size + 6 * ddr_region_v5.size

RecognizedIds == {INFO_V3, INFO_V3_WITH_14_FREQS, INFO_V4, INFO_V5, INFO_V5_WITH_6_REGIONS}

V5Ids == {INFO_V5, INFO_V5_WITH_6_REGIONS}

\* A decode routine is running or has just finished.
Decoding == pc \in {"v3_loop", "v4_loop", "v5_loop", "publish"}

Succeeded == pc = "idle" /\ ret = DebugfsDir

Failed == pc = "idle" /\ ret # NoCall /\ ret # DebugfsDir

RECURSIVE CountValid(_, _)
\* Number of slots below n with non-zero freq_khz and enabled set.
CountValid(tbl, n) ==
    IF n = 0 THEN 0
    ELSE CountValid(tbl, n - 1)
         + (IF tbl[n - 1].freq_khz # <<0, 0>> /\ tbl[n - 1].enabled # 0 THEN 1 ELSE 0)

\* freq_khz * 1000 as the exact integer, in 64 bits.
ExactHz(khz) ==
    LET p0 == 1000 * khz[2]
        p1 == 1000 * khz[1] + (p0 \div Limb)
    IN  <<0, p1 \div Limb, p1 % Limb, p0 % Limb>>

RECURSIVE ExactHzList(_, _)
\* The exact products of the valid slots below n, in table order.
ExactHzList(tbl, n) ==
    IF n = 0 THEN <<>>
    ELSE IF tbl[n - 1].freq_khz # <<0, 0>> /\ tbl[n - 1].enabled # 0
         THEN Append(ExactHzList(tbl, n - 1), ExactHz(tbl[n - 1].freq_khz))
         ELSE ExactHzList(tbl, n - 1)

\* The frequency list of a result: the first num_frequencies array cells.
FreqList(d) == [k \in 1..d.num_frequencies |-> d.frequencies[k - 1]]

-----------------------------------------------------------------------------
(* Properties *)

\* C1: smem_dram_infer_struct_version is an exact-match function of the
\* length alone: below sizeof(ddr_details_v3) it returns -EINVAL (too small);
\* a length yields a recognized identifier exactly when it equals that
\* identifier's size, the five sizes being pairwise distinct; every other
\* length, V5 base plus a region multiple other than 4 or 6 included, yields
\* INFO_UNKNOWN.
C1_ExactMatch ==
    pc = "inferred" =>
        /\ (actual_size < ddr_details_v3.size <=> inferred = -EINVAL)
        /\ \A id \in RecognizedIds :
              (actual_size = RecognizedSize(id)) <=> (inferred = id)
        /\ \A a, b \in RecognizedIds :
              RecognizedSize(a) = RecognizedSize(b) => a = b
        /\ (/\ actual_size >= ddr_details_v3.size
            /\ \A id \in RecognizedIds : actual_size # RecognizedSize(id))
           => inferred = INFO_UNKNOWN
        /\ \A k \in 0..7 :
              (k \notin {4, 6} /\ actual_size = ddr_details_v5.size + k * ddr_region_v5.size)
              => inferred = INFO_UNKNOWN

C1_Witness ==
    /\ pc = "inferred"
    /\ actual_size = ddr_details_v5.size + 5 * ddr_region_v5.size
    /\ inferred = INFO_UNKNOWN

C3_TooSmallIsNoData ==
    (data # NULL /\ actual_size < ddr_details_v3.size) =>
        /\ pc = "idle"
        /\ ret = ERR_PTR(-ENODATA)
        /\ ~logged
        /\ ~allocated

\* C4: a parse attempt has no partial outcome.  While it runs and after it
\* failed, __dram is what it was on entry, so qcom_smem_dram_get_hbb answers
\* as before; after it succeeded, __dram is the result of a walk that ran to
\* the end of the layout's table; every decode starts from a zeroed result.
C4_NoPartialOutcome ==
    /\ (pc # "idle" \/ Failed) =>
          /\ __dram = prev_dram
          /\ get_hbb_value(__dram) = get_hbb_value(prev_dram)
    /\ Succeeded =>
          /\ __dram = dram
          /\ i = (IF inferred \in {INFO_V3, INFO_V4}
                  THEN MAX_DDR_FREQ_NUM_V3 ELSE MAX_DDR_FREQ_NUM_V5)
          /\ __dram.num_frequencies = CountValid(data.tbl, i)
    /\ pc = "switch" => dram = ZeroDram

C4_Witness ==
    /\ Failed
    /\ ret = ERR_PTR(-EINVAL)
    /\ prev_dram # NULL
    /\ prev_dram.num_frequencies > 0
    /\ __dram = prev_dram

C6_ExactHz ==
    pc = "publish" => FreqList(dram) = ExactHzList(data.tbl, i)

\* C7: every frequency stored in a published result is greater than 0.
C7_Positive ==
    __dram # NULL =>
        \A k \in 0..(__dram.num_frequencies - 1) :
            __dram.frequencies[k] # <<0, 0, 0, 0>>

\* C8 as stated: the frequencies of a published result are pairwise distinct.
C8_Distinct ==
    __dram # NULL =>
        \A a, b \in 0..(__dram.num_frequencies - 1) :
            a # b => __dram.frequencies[a] # __dram.frequencies[b]

\* C8 amended: the list holds one value per walked slot with non-zero
\* freq_khz and enabled set, in table order, duplicates kept: two such slots
\* carrying the same freq_khz fill two list positions with the same value.
C8_OnePerValidSlot ==
    Succeeded =>
        /\ __dram.num_frequencies = CountValid(data.tbl, i)
        /\ \A p, q \in 0..(i - 1) :
              (/\ p < q
               /\ data.tbl[p].freq_khz # <<0, 0>> /\ data.tbl[p].enabled # 0
               /\ data.tbl[q].enabled # 0
               /\ data.tbl[q].freq_khz = data.tbl[p].freq_khz)
              => /\ CountValid(data.tbl, p) < CountValid(data.tbl, q)
                 /\ __dram.frequencies[CountValid(data.tbl, p)]
                      = __dram.frequencies[CountValid(data.tbl, q)]

C8_Witness ==
    /\ Succeeded
    /\ __dram.num_frequencies >= 2
    /\ __dram.frequencies[0] = __dram.frequencies[1]

\* C9: the decoded hbb equals the layout's authoritative field for every
\* value of that field: 0 for the V3 layouts, highest_bank_addr_bit[0][0] for
\* V4, ddr_regions.highest_bank_addr_bit for the V5 layouts.
C9_HbbAuthoritative ==
    Decoding =>
        /\ inferred \in {INFO_V3, INFO_V3_WITH_14_FREQS} => dram.hbb = 0
        /\ inferred = INFO_V4 => dram.hbb = data.highest_bank_addr_bit[0][0]
        /\ inferred \in V5Ids => <<0, dram.hbb>> = data.ddr_regions_hbb

\* C10: while any layout is decoded num_frequencies is at most 14 and at most
\* the declared slot count of the layout (13 for V3, 14 for the others), so
\* every write to frequencies[] lands below the array's 14 cells.
C10_WithinCapacity ==
    Decoding =>
        /\ dram.num_frequencies <= 14
        /\ dram.num_frequencies <= (IF inferred = INFO_V3 THEN 13 ELSE 14)
        /\ dram.num_frequencies <= i
        /\ \A k \in 0..(dram.num_frequencies - 1) : k \in DOMAIN dram.frequencies

C10_Witness ==
    /\ pc = "publish"
    /\ dram.num_frequencies = 14

====
